---- MODULE Spec2Model ----
(***************************************************************************)
(* Recurring-rule date projection of gerenciador_financeiro:               *)
(* RecurringRule.is_active, is_expired, calcular_proxima_execucao and      *)
(* pode_executar (backend/app/models/recurring_rule.py), over rules that   *)
(* RecurringRuleCreate (backend/app/schemas/recurring_rule.py) accepts.    *)
(*                                                                         *)
(* Python values: an Optional value is <<>> (None) or <<v>>; a date is a   *)
(* record [y, m, d] of the proleptic Gregorian calendar.                   *)
(***************************************************************************)
EXTENDS Integers, Sequences, FiniteSets, TLC

VARIABLES
    rule,          \* the RecurringRule row the calls are made on
    data,          \* the date argument handed to the operations (data_base / data_execucao)
    hoje,          \* the system clock: what date.today() returns
    ultimaCalc,    \* last call of calcular_proxima_execucao: <<>> or <<[hoje, ret]>>
    anteriorCalc,  \* the call of calcular_proxima_execucao before the last one, likewise
    ultimaPode,    \* last call of pode_executar: <<>> or <<ret>>
    banco,         \* the stored rows the rule hangs on: its user, account, category, itself
    lote,          \* the "run due rules" invocations: their positions, the row lock,
                   \* the occurrences materialized
    pedido         \* last request handled by a schema or a router and its outcome:
                   \* <<>> or <<[op, entrada, resposta]>>

vars == <<rule, data, hoje, ultimaCalc, anteriorCalc, ultimaPode, banco, lote, pedido>>

(***************************************************************************)
(* Bounds of the model                                                     *)
(***************************************************************************)
MaxIntervalo == 2   \* intervalo ranges over 1..MaxIntervalo
NumAnos      == 2   \* reference dates of the calendar runs span NumAnos years from 2023
MaxExec      == 1   \* total_execucoes in 0..MaxExec, max_execucoes unset or in 1..MaxExec
MaxTicks     == 1   \* days the clock may advance past its first value

(***************************************************************************)
(* Python's None and Optional                                              *)
(***************************************************************************)
None == <<>>
Some(v) == <<v>>
Val(o) == o[1]

\* truth value of an Optional[int] in an `if x` / `x and ...` test: None and 0 are false
TruthyInt(o) == o # None /\ Val(o) # 0

\* truth value of an Optional[date]: every date object is true
TruthyDate(o) == o # None

\* a call that ends by raising the exception named
Raised(exc) == <<"raise", exc>>
IsRaised(res) == Len(res) = 2

(***************************************************************************)
(* datetime.date and calendar                                              *)
(***************************************************************************)
MkDate(y, m, d) == [y |-> y, m |-> m, d |-> d]

IsLeap(y) == y % 4 = 0 /\ (y % 100 # 0 \/ y % 400 = 0)

\* calendar.monthrange(y, m)[1]
DaysInMonth(y, m) ==
    IF m = 2 THEN (IF IsLeap(y) THEN 29 ELSE 28)
    ELSE IF m \in {4, 6, 9, 11} THEN 30 ELSE 31

IsDate(dt) == dt.m \in 1..12 /\ dt.d >= 1 /\ dt.d <= DaysInMonth(dt.y, dt.m)

\* date.__lt__ / __le__ / __gt__
DateLT(a, b) ==
    \/ a.y < b.y
    \/ a.y = b.y /\ a.m < b.m
    \/ a.y = b.y /\ a.m = b.m /\ a.d < b.d
DateLE(a, b) == a = b \/ DateLT(a, b)
DateGT(a, b) == DateLT(b, a)

\* date + timedelta(days=1)
NextDay(dt) ==
    IF dt.d < DaysInMonth(dt.y, dt.m) THEN MkDate(dt.y, dt.m, dt.d + 1)
    ELSE IF dt.m < 12 THEN MkDate(dt.y, dt.m + 1, 1)
    ELSE MkDate(dt.y + 1, 1, 1)

\* date - timedelta(days=1)
PrevDay(dt) ==
    IF dt.d > 1 THEN MkDate(dt.y, dt.m, dt.d - 1)
    ELSE IF dt.m > 1 THEN MkDate(dt.y, dt.m - 1, DaysInMonth(dt.y, dt.m - 1))
    ELSE MkDate(dt.y - 1, 12, 31)

\* date + timedelta(days=n), n of either sign
RECURSIVE AddDays(_, _)
AddDays(dt, n) ==
    IF n = 0 THEN dt
    ELSE IF n > 0 THEN AddDays(NextDay(dt), n - 1)
    ELSE AddDays(PrevDay(dt), n + 1)

\* date.min.year .. date.max.year: a date outside cannot be built
DateInRange(dt) == dt.y >= 1 /\ dt.y <= 9999

Min(a, b) == IF a <= b THEN a ELSE b

(***************************************************************************)
(* dateutil.relativedelta, as calcular_proxima_execucao uses it            *)
(***************************************************************************)
\* dt + relativedelta(days=n)
RelativeDeltaDaysOff(dt, n) == AddDays(dt, n + 1)
RelativeDeltaDays(dt, n) == AddDays(dt, n)

\* dt + relativedelta(weeks=n): weeks are 7 days each
RelativeDeltaWeeksShort(dt, n) == AddDays(dt, n)
RelativeDeltaWeeks(dt, n) == AddDays(dt, 7 * n)

\* dt + relativedelta(months=n): the month is advanced, the year carried, and the
\* day is cut to the length of the month reached
RelativeDeltaMonthsRoll(dt, n) ==
    LET t  == (dt.y * 12 + (dt.m - 1)) + n
        y2 == t \div 12
        m2 == (t % 12) + 1
    IN  IF dt.d <= DaysInMonth(y2, m2) THEN MkDate(y2, m2, dt.d)
        ELSE AddDays(MkDate(y2, m2, DaysInMonth(y2, m2)), dt.d - DaysInMonth(y2, m2))
RelativeDeltaMonths(dt, n) ==
    LET t  == (dt.y * 12 + (dt.m - 1)) + n
        y2 == t \div 12
        m2 == (t % 12) + 1
    IN  MkDate(y2, m2, Min(dt.d, DaysInMonth(y2, m2)))

\* dt + relativedelta(years=n)
RelativeDeltaYearsRoll(dt, n) ==
    IF dt.d <= DaysInMonth(dt.y + n, dt.m) THEN MkDate(dt.y + n, dt.m, dt.d)
    ELSE NextDay(MkDate(dt.y + n, dt.m, DaysInMonth(dt.y + n, dt.m)))
RelativeDeltaYears(dt, n) ==
    MkDate(dt.y + n, dt.m, Min(dt.d, DaysInMonth(dt.y + n, dt.m)))

\* dt + relativedelta(day=31): the absolute day, cut to the month's length
RelativeDeltaDay31Roll(dt) ==
    AddDays(MkDate(dt.y, dt.m, DaysInMonth(dt.y, dt.m)), 31 - DaysInMonth(dt.y, dt.m))
RelativeDeltaDay31(dt) == MkDate(dt.y, dt.m, Min(31, DaysInMonth(dt.y, dt.m)))

(***************************************************************************)
(* RecurringRule                                                           *)
(***************************************************************************)
RecurrenceFrequency == {"DAILY", "WEEKLY", "MONTHLY", "QUARTERLY", "YEARLY"}
RecurrenceStatus == {"ACTIVE", "PAUSED", "COMPLETED", "CANCELLED"}

\* RecurringRule.is_active: self.ativo and self.status == RecurrenceStatus.ACTIVE
is_active(r) == r.ativo /\ r.status = "ACTIVE"

\* RecurringRule.is_expired: a property without arguments, it reads the clock
\* (date.today(), here hj) and never the caller's reference date
is_expired_limite_exato(r, hj) ==
    IF TruthyDate(r.data_fim) /\ DateGT(hj, Val(r.data_fim)) THEN TRUE
    ELSE IF TruthyInt(r.max_execucoes) /\ r.total_execucoes = Val(r.max_execucoes) THEN TRUE
    ELSE FALSE
is_expired(r, hj) ==
    IF TruthyDate(r.data_fim) /\ DateGT(hj, Val(r.data_fim)) THEN TRUE
    ELSE IF TruthyInt(r.max_execucoes) /\ r.total_execucoes >= Val(r.max_execucoes) THEN TRUE
    ELSE FALSE

\* next_date.replace(day=dia): ValueError when the month has no such day
ReplaceDayRaises(dt, dia) == dia < 1 \/ dia > DaysInMonth(dt.y, dt.m)
ReplaceDay(dt, dia) == MkDate(dt.y, dt.m, dia)

\* the MONTHLY branch of calcular_proxima_execucao
ProximaMensalSemAjuste(r, base) == RelativeDeltaMonths(base, r.intervalo)
ProximaMensalMesBase(r, base) ==
    IF TruthyInt(r.dia_do_mes)
    THEN IF ReplaceDayRaises(base, Val(r.dia_do_mes))
         THEN RelativeDeltaDay31(base)
         ELSE ReplaceDay(base, Val(r.dia_do_mes))
    ELSE RelativeDeltaMonths(base, r.intervalo)
ProximaMensal(r, base) ==
    LET next_date == RelativeDeltaMonths(base, r.intervalo)
    IN  IF TruthyInt(r.dia_do_mes)
        THEN IF ReplaceDayRaises(next_date, Val(r.dia_do_mes))
             THEN RelativeDeltaDay31(next_date)
             ELSE ReplaceDay(next_date, Val(r.dia_do_mes))
        ELSE next_date

\* the date an addition arrived at, or the exception the addition raises when
\* that date is outside date.min .. date.max
Computed(dt, exc) == IF DateInRange(dt) THEN Some(dt) ELSE Raised(exc)

\* RecurringRule.calcular_proxima_execucao(data_base); hj is date.today()
calcular_proxima_execucao_sem_except(r, data_base, hj) ==
    IF ~is_active(r) \/ is_expired(r, hj) THEN None
    ELSE LET base == IF TruthyDate(data_base) THEN Val(data_base) ELSE hj
         IN  CASE r.frequencia = "DAILY" ->
                    Computed(RelativeDeltaDays(base, r.intervalo), "OverflowError")
               [] r.frequencia = "WEEKLY" ->
                    Computed(RelativeDeltaWeeks(base, r.intervalo), "OverflowError")
               [] r.frequencia = "MONTHLY" ->
                    IF /\ DateInRange(RelativeDeltaMonths(base, r.intervalo))
                       /\ TruthyInt(r.dia_do_mes)
                       /\ ReplaceDayRaises(RelativeDeltaMonths(base, r.intervalo),
                                           Val(r.dia_do_mes))
                    THEN Raised("ValueError")
                    ELSE Computed(ProximaMensal(r, base), "ValueError")
               [] r.frequencia = "QUARTERLY" ->
                    Computed(RelativeDeltaMonths(base, 3 * r.intervalo), "ValueError")
               [] r.frequencia = "YEARLY" ->
                    Computed(RelativeDeltaYears(base, r.intervalo), "ValueError")
               [] OTHER -> None
calcular_proxima_execucao(r, data_base, hj) ==
    IF ~is_active(r) \/ is_expired(r, hj) THEN None
    ELSE LET base == IF TruthyDate(data_base) THEN Val(data_base) ELSE hj
         IN  CASE r.frequencia = "DAILY" ->
                    Computed(RelativeDeltaDays(base, r.intervalo), "OverflowError")
               [] r.frequencia = "WEEKLY" ->
                    Computed(RelativeDeltaWeeks(base, r.intervalo), "OverflowError")
               [] r.frequencia = "MONTHLY" ->
                    Computed(ProximaMensal(r, base), "ValueError")
               [] r.frequencia = "QUARTERLY" ->
                    Computed(RelativeDeltaMonths(base, 3 * r.intervalo), "ValueError")
               [] r.frequencia = "YEARLY" ->
                    Computed(RelativeDeltaYears(base, r.intervalo), "ValueError")
               [] OTHER -> None

\* RecurringRule.pode_executar(data_execucao)
pode_executar_sem_inicio(r, data_execucao) ==
    IF ~is_active(r) THEN FALSE
    ELSE IF TruthyDate(r.data_fim) /\ DateGT(data_execucao, Val(r.data_fim)) THEN FALSE
    ELSE IF TruthyInt(r.max_execucoes) /\ r.total_execucoes >= Val(r.max_execucoes) THEN FALSE
    ELSE TRUE
pode_executar_limite_exato(r, data_execucao) ==
    IF ~is_active(r) THEN FALSE
    ELSE IF DateLT(data_execucao, r.data_inicio) THEN FALSE
    ELSE IF TruthyDate(r.data_fim) /\ DateGT(data_execucao, Val(r.data_fim)) THEN FALSE
    ELSE IF TruthyInt(r.max_execucoes) /\ r.total_execucoes = Val(r.max_execucoes) THEN FALSE
    ELSE TRUE
pode_executar_so_na_proxima(r, data_execucao) ==
    IF ~is_active(r) THEN FALSE
    ELSE IF DateLT(data_execucao, r.data_inicio) THEN FALSE
    ELSE IF TruthyDate(r.data_fim) /\ DateGT(data_execucao, Val(r.data_fim)) THEN FALSE
    ELSE IF TruthyInt(r.max_execucoes) /\ r.total_execucoes >= Val(r.max_execucoes) THEN FALSE
    ELSE IF TruthyDate(r.proxima_execucao) /\ data_execucao # Val(r.proxima_execucao) THEN FALSE
    ELSE TRUE
pode_executar(r, data_execucao) ==
    IF ~is_active(r) THEN FALSE
    ELSE IF DateLT(data_execucao, r.data_inicio) THEN FALSE
    ELSE IF TruthyDate(r.data_fim) /\ DateGT(data_execucao, Val(r.data_fim)) THEN FALSE
    ELSE IF TruthyInt(r.max_execucoes) /\ r.total_execucoes >= Val(r.max_execucoes) THEN FALSE
    ELSE TRUE

(***************************************************************************)
(* Rules and dates the runs start from                                     *)
(***************************************************************************)
\* a row as RecurringRuleCreate and the column defaults leave it
Rule(freq, n, dom, dow, ini, fim, st, at, tot, mx) ==
    [frequencia |-> freq, intervalo |-> n, dia_do_mes |-> dom, dias_da_semana |-> dow,
     data_inicio |-> ini, data_fim |-> fim, status |-> st, ativo |-> at,
     total_execucoes |-> tot, max_execucoes |-> mx,
     proxima_execucao |-> None, ultima_execucao |-> None]

Intervalos == 1..MaxIntervalo

\* eligibility runs: a rule in force from 2024-01-30, with or without an end on
\* 2024-02-01, looked at on the days around both, the clock starting on the end day
InicioGeral == MkDate(2024, 1, 30)
FimGeral == MkDate(2024, 2, 1)
DatasGeral == {AddDays(MkDate(2024, 1, 29), k) : k \in 0..4}
HojeInicial == MkDate(2024, 2, 1)
HojeFinal == AddDays(HojeInicial, MaxTicks)

RegrasGeral ==
    {Rule(freq, n, None, None, InicioGeral, fim, st, at, tot, mx) :
        freq \in RecurrenceFrequency, n \in Intervalos,
        fim \in {None, Some(FimGeral)},
        st \in RecurrenceStatus, at \in BOOLEAN,
        tot \in 0..MaxExec, mx \in {None} \cup {Some(k) : k \in 1..MaxExec}}

\* calendar runs: an active rule without end or cap, dia_do_mes unset or any of
\* 1..31, dias_da_semana unset or Monday/Wednesday/Friday, and every day of
\* NumAnos years from 2023 (2024 is a leap year) as the reference date
Anos == 2023..(2023 + NumAnos - 1)
DatasCalendario ==
    {dt \in {MkDate(y, m, d) : y \in Anos, m \in 1..12, d \in 1..31} : IsDate(dt)}
DiasDoMes == {None} \cup {Some(d) : d \in 1..31}
DiasDaSemana == {None, Some(<<1, 3, 5>>)}

RegrasCalendario ==
    {Rule(freq, n, dom, dow, MkDate(2023, 1, 1), None, "ACTIVE", TRUE, 0, None) :
        freq \in RecurrenceFrequency, n \in Intervalos,
        dom \in DiasDoMes, dow \in DiasDaSemana}

(***************************************************************************)
(* Storage and batch state                                                 *)
(***************************************************************************)
\* the rows of usuarios, contas, categorias and regras_recorrentes that belong
\* together: the user, the rule's account and category (each with or without
\* transactions of its own), and the rule's row with its categoria_id
Banco(contaTx, catTx, regraCat) ==
    [usuario_ativo |-> TRUE,
     conta |-> "ativa", conta_transacoes |-> contaTx,
     categoria |-> "ativa", categoria_transacoes |-> catTx,
     regra |-> TRUE, regra_categoria |-> regraCat]

BancoInicial == Banco(FALSE, FALSE, TRUE)

Workers == {"w1", "w2"}

\* no invocation running, the row unlocked, nothing materialized
LoteInicial ==
    [pc |-> [w \in Workers |-> "ocioso"],
     aceita |-> [w \in Workers |-> None],
     trava |-> None,
     transacoes |-> <<>>]

(***************************************************************************)
(* State machine                                                           *)
(***************************************************************************)
NoCalls ==
    /\ ultimaCalc = None
    /\ anteriorCalc = None
    /\ ultimaPode = None
    /\ banco = BancoInicial
    /\ lote = LoteInicial
    /\ pedido = None

Init ==
    /\ rule \in RegrasGeral
    /\ data \in DatasGeral
    /\ hoje = HojeInicial
    /\ NoCalls

InitCalendario ==
    /\ rule \in RegrasCalendario
    /\ data \in DatasCalendario
    /\ hoje = HojeInicial
    /\ NoCalls

\* rule.calcular_proxima_execucao(data): reads the rule and the clock, writes nothing
CalcularProximaExecucaoGrava ==
    /\ ultimaCalc' = Some([hoje |-> hoje,
                           ret |-> calcular_proxima_execucao(rule, Some(data), hoje)])
    /\ anteriorCalc' = ultimaCalc
    /\ rule' = [rule EXCEPT !.proxima_execucao =
                                calcular_proxima_execucao(rule, Some(data), hoje)]
    /\ UNCHANGED <<data, hoje, ultimaPode, banco, lote, pedido>>
CalcularProximaExecucao ==
    /\ ultimaCalc' = Some([hoje |-> hoje,
                           ret |-> calcular_proxima_execucao(rule, Some(data), hoje)])
    /\ anteriorCalc' = ultimaCalc
    /\ UNCHANGED <<rule, data, hoje, ultimaPode, banco, lote, pedido>>

\* rule.pode_executar(data)
PodeExecutar ==
    /\ ultimaPode' = Some(pode_executar(rule, data))
    /\ UNCHANGED <<rule, data, hoje, ultimaCalc, anteriorCalc, banco, lote, pedido>>

\* midnight passes: date.today() moves to the next day
Tick ==
    /\ DateLT(hoje, HojeFinal)
    /\ hoje' = NextDay(hoje)
    /\ UNCHANGED <<rule, data, ultimaCalc, anteriorCalc, ultimaPode, banco, lote, pedido>>

Next == CalcularProximaExecucao \/ PodeExecutar \/ Tick

Spec == Init /\ [][Next]_vars

NextCalendario == CalcularProximaExecucao

SpecCalendario == InitCalendario /\ [][NextCalendario]_vars

(***************************************************************************)
(* Materialization: the collaborator that turns an accepted occurrence     *)
(* into a transaction and books it on the rule                             *)
(***************************************************************************)
\* the rule after one occurrence on date d was materialized: total_execucoes
\* counts it, ultima_execucao is d, proxima_execucao is the engine's next date
Materializada(r, d, hj) ==
    LET contada == [r EXCEPT !.total_execucoes = @ + 1, !.ultima_execucao = Some(d)]
    IN  [contada EXCEPT !.proxima_execucao = calcular_proxima_execucao(contada, Some(d), hj)]

\* answers of earlier calls were given for the row as it was: they are dropped
\* when the row changes
EsqueceChamadas ==
    /\ ultimaCalc' = None
    /\ anteriorCalc' = None
    /\ ultimaPode' = None

\* rules of the execution runs: as the eligibility runs', not yet executed
RegrasExec == {r \in RegrasGeral : r.total_execucoes = 0}

InitExec ==
    /\ rule \in RegrasExec
    /\ data \in DatasGeral
    /\ hoje = HojeInicial
    /\ NoCalls

\* an occurrence is booked on the rule without asking pode_executar first
Incrementar ==
    /\ rule.total_execucoes <= MaxExec
    /\ rule' = Materializada(rule, data, hoje)
    /\ EsqueceChamadas
    /\ UNCHANGED <<data, hoje, banco, lote, pedido>>

NextExec == CalcularProximaExecucao \/ PodeExecutar \/ Tick \/ Incrementar

SpecExec == InitExec /\ [][NextExec]_vars

(***************************************************************************)
(* Two concurrent "run due rules" invocations over one rule. Each finds    *)
(* the rule due, takes the row lock, and under the lock reads the row,     *)
(* asks pode_executar for the due date, materializes it and books it.      *)
(***************************************************************************)
\* the rule's next occurrence has come
Vencida(r, hj) == r.proxima_execucao # None /\ DateLE(Val(r.proxima_execucao), hj)

\* rules of the concurrent runs: not yet executed, the first occurrence on data_inicio
RegrasConc ==
    {[r EXCEPT !.proxima_execucao = Some(r.data_inicio)] : r \in RegrasExec}

InitConc ==
    /\ rule \in RegrasConc
    /\ data = InicioGeral
    /\ hoje = HojeInicial
    /\ NoCalls

\* the invocation's query finds the rule due (no lock held yet)
Selecionar(w) ==
    /\ lote.pc[w] = "ocioso"
    /\ Vencida(rule, hoje)
    /\ lote' = [lote EXCEPT !.pc[w] = "selecionada"]
    /\ UNCHANGED <<rule, data, hoje, ultimaCalc, anteriorCalc, ultimaPode, banco, pedido>>

\* the row lock is taken; it is free only when no other invocation holds it
TravarSemEspera(w) ==
    /\ lote.pc[w] = "selecionada"
    /\ lote' = [lote EXCEPT !.pc[w] = "travada", !.trava = Some(w)]
    /\ UNCHANGED <<rule, data, hoje, ultimaCalc, anteriorCalc, ultimaPode, banco, pedido>>
Travar(w) ==
    /\ lote.pc[w] = "selecionada"
    /\ lote.trava = None
    /\ lote' = [lote EXCEPT !.pc[w] = "travada", !.trava = Some(w)]
    /\ UNCHANGED <<rule, data, hoje, ultimaCalc, anteriorCalc, ultimaPode, banco, pedido>>

\* under the lock: the row is read again and pode_executar asked for its due date
Verificar(w) ==
    /\ lote.pc[w] = "travada"
    /\ IF Vencida(rule, hoje) /\ pode_executar(rule, Val(rule.proxima_execucao))
       THEN lote' = [lote EXCEPT !.pc[w] = "aceita", !.aceita[w] = rule.proxima_execucao]
       ELSE lote' = [lote EXCEPT !.pc[w] = "ocioso", !.trava = None]
    /\ UNCHANGED <<rule, data, hoje, ultimaCalc, anteriorCalc, ultimaPode, banco, pedido>>

\* under the lock: the transaction is created and the execution booked on the rule
Materializar(w) ==
    /\ lote.pc[w] = "aceita"
    /\ lote' = [lote EXCEPT !.pc[w] = "feita",
                            !.transacoes = Append(@, [data |-> Val(lote.aceita[w]), por |-> w])]
    /\ rule' = Materializada(rule, Val(lote.aceita[w]), hoje)
    /\ UNCHANGED <<data, hoje, ultimaCalc, anteriorCalc, ultimaPode, banco, pedido>>

\* commit: the lock is released
Liberar(w) ==
    /\ lote.pc[w] = "feita"
    /\ lote' = [lote EXCEPT !.pc[w] = "ocioso", !.aceita[w] = None, !.trava = None]
    /\ UNCHANGED <<rule, data, hoje, ultimaCalc, anteriorCalc, ultimaPode, banco, pedido>>

NextConc ==
    \/ \E w \in Workers : Selecionar(w)
    \/ \E w \in Workers : Travar(w)
    \/ \E w \in Workers : Verificar(w)
    \/ \E w \in Workers : Materializar(w)
    \/ \E w \in Workers : Liberar(w)
    \/ Tick

SpecConc == InitConc /\ [][NextConc]_vars

(***************************************************************************)
(* Life of a rule: created through RecurringRuleCreate, changed through    *)
(* RecurringRuleUpdate, executed when pode_executar allows it              *)
(***************************************************************************)
\* bodies of creation requests: the fields of RecurringRuleCreate that the engine
\* reads, with values on both sides of every constraint, and status and
\* total_execucoes as a client may add them to the body
PedidosCriacao ==
    [frequencia : RecurrenceFrequency,
     intervalo : {0, 13} \cup Intervalos,
     dia_do_mes : {None, Some(0), Some(15), Some(32)},
     dias_da_semana : {None, Some(<<>>), Some(<<1, 3, 5>>), Some(<<7>>)},
     data_inicio : {InicioGeral},
     data_fim : {None, Some(FimGeral), Some(InicioGeral)},
     ativo : BOOLEAN,
     max_execucoes : {None, Some(0)} \cup {Some(k) : k \in 1..MaxExec},
     status : {None, Some("CANCELLED")},
     total_execucoes : {None, Some(5)}]

\* intervalo: int = Field(default=1, ge=1, le=12)
IntervaloAceitoSemMinimo(n) == n <= 12
IntervaloAceito(n) == n >= 1 /\ n <= 12

\* dia_do_mes: Optional[int] = Field(None, ge=1, le=31)
DiaDoMesAceito(o) == IF o = None THEN TRUE ELSE Val(o) >= 1 /\ Val(o) <= 31

\* max_execucoes: Optional[int] = Field(None, ge=1)
MaxExecucoesAceito(o) == IF o = None THEN TRUE ELSE Val(o) >= 1

\* RecurringRuleCreate.validate_dias_semana: the value passes
validate_dias_semana(v) ==
    IF v = None THEN TRUE
    ELSE /\ \A i \in 1..Len(Val(v)) : 0 <= Val(v)[i] /\ Val(v)[i] <= 6
         /\ Len(Val(v)) # 0

\* RecurringRuleCreate.validate_data_fim: the value passes
validate_data_fim(v, data_inicio) ==
    ~(TruthyDate(v) /\ DateLE(Val(v), data_inicio))

\* the body passes the validation of RecurringRuleCreate
RecurringRuleCreate(req) ==
    /\ IntervaloAceito(req.intervalo)
    /\ DiaDoMesAceito(req.dia_do_mes)
    /\ MaxExecucoesAceito(req.max_execucoes)
    /\ validate_dias_semana(req.dias_da_semana)
    /\ validate_data_fim(req.data_fim, req.data_inicio)

\* the row stored for a validated body: the schema's fields, and the column
\* defaults for status and total_execucoes, which the schema does not have
LinhaCriadaComStatus(req) ==
    Rule(req.frequencia, req.intervalo, req.dia_do_mes, req.dias_da_semana,
         req.data_inicio, req.data_fim,
         IF req.status # None THEN Val(req.status) ELSE "ACTIVE", req.ativo,
         IF req.total_execucoes # None THEN Val(req.total_execucoes) ELSE 0,
         req.max_execucoes)
LinhaCriada(req) ==
    Rule(req.frequencia, req.intervalo, req.dia_do_mes, req.dias_da_semana,
         req.data_inicio, req.data_fim, "ACTIVE", req.ativo, 0, req.max_execucoes)

\* creation on its own: no rule yet, then one request, accepted or refused
InitCriacao ==
    /\ rule = None
    /\ data = InicioGeral
    /\ hoje = HojeInicial
    /\ NoCalls

Criar ==
    /\ rule = None
    /\ pedido = None
    /\ \E req \in PedidosCriacao :
          IF RecurringRuleCreate(req)
          THEN /\ rule' = LinhaCriada(req)
               /\ pedido' = Some([op |-> "criar", entrada |-> req, resposta |-> "criada"])
          ELSE /\ rule' = rule
               /\ pedido' = Some([op |-> "criar", entrada |-> req, resposta |-> "recusada"])
    /\ UNCHANGED <<data, hoje, ultimaCalc, anteriorCalc, ultimaPode, banco, lote>>

SpecCriacao == InitCriacao /\ [][Criar]_vars

\* rows RecurringRuleCreate leads to
RegrasCriadas == {LinhaCriada(req) : req \in {q \in PedidosCriacao : RecurringRuleCreate(q)}}

InitVida ==
    /\ rule \in RegrasCriadas
    /\ data \in DatasGeral
    /\ hoje = HojeInicial
    /\ NoCalls

\* values RecurringRuleUpdate accepts for max_execucoes (ge=1, or null) and data_fim
\* (any date, or null)
MaxExecucoesAceitos == {None} \cup {Some(k) : k \in 1..MaxExec}
DatasFimAceitas == {None, Some(FimGeral), Some(InicioGeral)}

\* values a client may send for dia_do_mes (constrained to 1..31 or null) and for
\* dias_da_semana (Optional[List[int]], no validator)
DiasDoMesPedidos == {None, Some(0), Some(15), Some(31), Some(32)}
DiasDaSemanaPedidos == {None, Some(<<>>), Some(<<1, 3, 5>>), Some(<<7>>)}

\* an update validated by RecurringRuleUpdate is applied: each field the request
\* sets is written to the row
Atualizar ==
    /\ \/ \E st \in RecurrenceStatus : rule' = [rule EXCEPT !.status = st]
       \/ \E at \in BOOLEAN : rule' = [rule EXCEPT !.ativo = at]
       \/ \E mx \in MaxExecucoesAceitos : rule' = [rule EXCEPT !.max_execucoes = mx]
       \/ \E fim \in DatasFimAceitas : rule' = [rule EXCEPT !.data_fim = fim]
       \/ \E dom \in DiasDoMesPedidos :
             DiaDoMesAceito(dom) /\ rule' = [rule EXCEPT !.dia_do_mes = dom]
       \/ \E dow \in DiasDaSemanaPedidos : rule' = [rule EXCEPT !.dias_da_semana = dow]
    /\ UNCHANGED <<data, hoje, ultimaCalc, anteriorCalc, ultimaPode, banco, lote, pedido>>

\* an occurrence on date `data` is materialized after pode_executar answered true
Executar ==
    /\ rule.total_execucoes <= MaxExec
    /\ pode_executar(rule, data)
    /\ rule' = Materializada(rule, data, hoje)
    /\ UNCHANGED <<data, hoje, ultimaCalc, anteriorCalc, ultimaPode, banco, lote, pedido>>

NextVida == Atualizar \/ Executar \/ Tick

SpecVida == InitVida /\ [][NextVida]_vars

(***************************************************************************)
(* Storage: the rule's row, the rows it references, and the delete         *)
(* operations of the routers                                               *)
(***************************************************************************)
InitBanco ==
    /\ rule \in RegrasCriadas
    /\ data = InicioGeral
    /\ hoje = HojeInicial
    /\ ultimaCalc = None /\ anteriorCalc = None /\ ultimaPode = None
    /\ banco \in {Banco(contaTx, catTx, regraCat) :
                    contaTx \in BOOLEAN, catTx \in BOOLEAN, regraCat \in BOOLEAN}
    /\ lote = LoteInicial
    /\ pedido = None

\* DELETE /accounts/{id}: deactivates an account that has transactions, deletes
\* the row of one that has none; recurring_rules.account_id is ON DELETE CASCADE
delete_account ==
    /\ banco.usuario_ativo
    /\ banco.conta # "removida"
    /\ banco' = IF banco.conta_transacoes
                THEN [banco EXCEPT !.conta = "inativa"]
                ELSE [banco EXCEPT !.conta = "removida", !.regra = FALSE,
                                   !.regra_categoria = FALSE]
    /\ UNCHANGED <<rule, data, hoje, ultimaCalc, anteriorCalc, ultimaPode, lote, pedido>>

\* DELETE /categories/{id} of a category without subcategories: deactivates one
\* that has transactions, deletes the row of one that has none;
\* recurring_rules.category_id is ON DELETE SET NULL
delete_category ==
    /\ banco.usuario_ativo
    /\ banco.categoria # "removida"
    /\ banco' = IF banco.categoria_transacoes
                THEN [banco EXCEPT !.categoria = "inativa"]
                ELSE [banco EXCEPT !.categoria = "removida", !.regra_categoria = FALSE]
    /\ UNCHANGED <<rule, data, hoje, ultimaCalc, anteriorCalc, ultimaPode, lote, pedido>>

\* DELETE /users/me: the user is marked inactive, no row is deleted
delete_user_account ==
    /\ banco.usuario_ativo
    /\ banco' = [banco EXCEPT !.usuario_ativo = FALSE]
    /\ UNCHANGED <<rule, data, hoje, ultimaCalc, anteriorCalc, ultimaPode, lote, pedido>>

NextBanco == delete_account \/ delete_category \/ delete_user_account

SpecBanco == InitBanco /\ [][NextBanco]_vars

(***************************************************************************)
(* Rows and dates at the edges: rows the schema would have refused         *)
(* (intervalo below 1, dia_do_mes outside 1..31) next to rows it accepts,  *)
(* and reference dates up to date.max                                      *)
(***************************************************************************)
IntervalosBorda == {-1, 0} \cup Intervalos
DiasDoMesBorda == {None, Some(0), Some(31), Some(32)}
DatasBorda ==
    {MkDate(2024, 1, 31), MkDate(2024, 3, 1), MkDate(9998, 12, 31),
     MkDate(9999, 11, 30), MkDate(9999, 12, 31)}

RegrasBorda ==
    {Rule(freq, n, dom, None, InicioGeral, None, "ACTIVE", at, 0, None) :
        freq \in RecurrenceFrequency, n \in IntervalosBorda,
        dom \in DiasDoMesBorda, at \in BOOLEAN}

InitBordas ==
    /\ rule \in RegrasBorda
    /\ data \in DatasBorda
    /\ hoje = HojeInicial
    /\ NoCalls

NextBordas == CalcularProximaExecucao \/ PodeExecutar

SpecBordas == InitBordas /\ [][NextBordas]_vars

(***************************************************************************)
(* Projection: calcular_proxima_execucao called again and again, each      *)
(* result being the next reference date                                    *)
(***************************************************************************)
RegrasIteracao ==
    {Rule(freq, n, dom, None, MkDate(2023, 1, 1), None, "ACTIVE", TRUE, 0, None) :
        freq \in RecurrenceFrequency, n \in Intervalos,
        dom \in {None, Some(15), Some(29), Some(30), Some(31)}}

DatasPartida == {MkDate(2023, 1, 31), MkDate(2023, 12, 31), MkDate(2024, 1, 31)}

InitIteracao ==
    /\ rule \in RegrasIteracao
    /\ data \in DatasPartida
    /\ hoje = HojeInicial
    /\ NoCalls

\* the date returned becomes the reference date of the next call, as long as it
\* lies in the years modelled
Avancar ==
    /\ ultimaCalc # None
    /\ Len(Val(ultimaCalc).ret) = 1
    /\ Val(Val(ultimaCalc).ret).y \in Anos
    /\ data' = Val(Val(ultimaCalc).ret)
    /\ EsqueceChamadas
    /\ UNCHANGED <<rule, hoje, banco, lote, pedido>>

NextIteracao == CalcularProximaExecucao \/ Avancar

SpecIteracao == InitIteracao /\ [][NextIteracao]_vars

(***************************************************************************)
(* utils/locale_mapper: enum terms in English and Portuguese               *)
(***************************************************************************)
\* a Python string as the mapper sees it: its letters in lower case without
\* accents (palavra), and what _normalize_token takes away: the case of the
\* letters, spaces around them, accents on them
Str(p, cx, esp, ac) == [palavra |-> p, caixa |-> cx, espacos |-> esp, acento |-> ac]
Plain(p) == Str(p, "minuscula", FALSE, FALSE)
Upper(p) == Str(p, "maiuscula", FALSE, FALSE)

\* _normalize_token: strip(), lower(), NFD decomposition without combining marks
normalize_token(token) == Str(token.palavra, "minuscula", FALSE, FALSE)

\* an Enum member NAME = "value"
Member(n, v) == [name |-> Upper(n), value |-> Plain(v)]

\* dict: d[k] = v, d.setdefault(k, v), d.get(k)
EmptyDict == [k \in {} |-> k]
Put(d, k, v) == [x \in DOMAIN d \cup {k} |-> IF x = k THEN v ELSE d[x]]
SetDefault(d, k, v) == IF k \in DOMAIN d THEN d ELSE Put(d, k, v)
Get(d, k) == IF k \in DOMAIN d THEN Some(d[k]) ELSE None

\* class AccountType(str, Enum)
AccountType ==
    <<Member("cash", "dinheiro"), Member("checking", "conta_corrente"),
      Member("savings", "poupanca"), Member("credit", "cartao_credito"),
      Member("investment", "investimento"), Member("other", "outros")>>

\* class CategoryType(str, Enum)
CategoryType ==
    <<Member("income", "income"), Member("expense", "expense")>>

\* class TransactionType(str, Enum)
TransactionType ==
    <<Member("income", "income"), Member("expense", "expense"),
      Member("transfer", "transfer")>>

\* class TransactionStatus(str, Enum)
TransactionStatus ==
    <<Member("pending", "pending"), Member("cleared", "cleared"),
      Member("reconciled", "reconciled")>>

\* class PaymentMethod(str, Enum)
PaymentMethod ==
    <<Member("cash", "cash"), Member("pix", "pix"), Member("debit", "debit"),
      Member("credit", "credit"), Member("boleto", "boleto"),
      Member("transfer", "transfer"), Member("check", "check"), Member("other", "other")>>

\* class BudgetStatus(str, Enum)
BudgetStatus ==
    <<Member("active", "active"), Member("paused", "paused"),
      Member("completed", "completed"), Member("exceeded", "exceeded")>>

\* class RecurrenceFrequency(str, Enum)
RecurrenceFrequencyEnum ==
    <<Member("daily", "diario"), Member("weekly", "semanal"), Member("monthly", "mensal"),
      Member("quarterly", "trimestral"), Member("yearly", "anual")>>

\* class RecurrenceStatus(str, Enum)
RecurrenceStatusEnum ==
    <<Member("active", "ativa"), Member("paused", "pausada"),
      Member("completed", "concluida"), Member("cancelled", "cancelada")>>

\* EnumLocaleMapper(enum_cls, en_to_pt)
Mapper(nome, enum_cls, en_to_pt) == [nome |-> nome, enum_cls |-> enum_cls, en_to_pt |-> en_to_pt]
Par(en, pt) == <<Plain(en), Plain(pt)>>

account_type_mapper ==
    Mapper("account_type_mapper", AccountType,
        <<Par("cash", "dinheiro"), Par("checking", "conta_corrente"),
          Par("savings", "poupanca"), Par("credit", "cartao_credito"),
          Par("investment", "investimento"), Par("other", "outros")>>)

category_type_mapper ==
    Mapper("category_type_mapper", CategoryType,
        <<Par("income", "receita"), Par("expense", "despesa")>>)

transaction_type_mapper ==
    Mapper("transaction_type_mapper", TransactionType,
        <<Par("income", "receita"), Par("expense", "despesa"),
          Par("transfer", "transferencia")>>)

transaction_status_mapper ==
    Mapper("transaction_status_mapper", TransactionStatus,
        <<Par("pending", "pendente"), Par("cleared", "compensada"),
          Par("reconciled", "conciliada")>>)

payment_method_mapper ==
    Mapper("payment_method_mapper", PaymentMethod,
        <<Par("cash", "dinheiro"), Par("pix", "pix"), Par("debit", "cartao_debito"),
          Par("credit", "cartao_credito"), Par("boleto", "boleto"),
          Par("transfer", "transferencia"), Par("check", "cheque"), Par("other", "outros")>>)

budget_status_mapper ==
    Mapper("budget_status_mapper", BudgetStatus,
        <<Par("active", "ativo"), Par("paused", "pausado"), Par("completed", "concluido"),
          Par("exceeded", "excedido")>>)

recurrence_frequency_mapper ==
    Mapper("recurrence_frequency_mapper", RecurrenceFrequencyEnum,
        <<Par("daily", "diario"), Par("weekly", "semanal"), Par("monthly", "mensal"),
          Par("quarterly", "trimestral"), Par("yearly", "anual")>>)

recurrence_status_mapper ==
    Mapper("recurrence_status_mapper", RecurrenceStatusEnum,
        <<Par("active", "ativa"), Par("paused", "pausada"), Par("completed", "concluida"),
          Par("cancelled", "cancelada")>>)

Mappers ==
    {account_type_mapper, category_type_mapper, transaction_type_mapper,
     transaction_status_mapper, payment_method_mapper, budget_status_mapper,
     recurrence_frequency_mapper, recurrence_status_mapper}

\* __post_init__, first loop: the enum's own values and names
RECURSIVE TokensDosMembros(_, _, _)
TokensDosMembros(d, enum_cls, i) ==
    IF i > Len(enum_cls) THEN d
    ELSE LET canonical == enum_cls[i].value
             d1 == SetDefault(d, normalize_token(enum_cls[i].value), canonical)
             d2 == SetDefault(d1, normalize_token(enum_cls[i].name), canonical)
         IN  TokensDosMembros(d2, enum_cls, i + 1)

\* __post_init__, second loop: the legacy term and the Portuguese term are both
\* assigned the Portuguese term as canonical value
RECURSIVE TokensDasTraducoes(_, _, _)
TokensDasTraducoes(d, en_to_pt, i) ==
    IF i > Len(en_to_pt) THEN d
    ELSE LET canonical == en_to_pt[i][2]
             d1 == Put(d, normalize_token(en_to_pt[i][1]), canonical)
             d2 == Put(d1, normalize_token(en_to_pt[i][2]), canonical)
         IN  TokensDasTraducoes(d2, en_to_pt, i + 1)

\* self._token_to_canonical
token_to_canonical(mp) ==
    TokensDasTraducoes(TokensDosMembros(EmptyDict, mp.enum_cls, 1), mp.en_to_pt, 1)

RECURSIVE PtDosMembros(_, _, _)
PtDosMembros(d, enum_cls, i) ==
    IF i > Len(enum_cls) THEN d
    ELSE PtDosMembros(SetDefault(d, enum_cls[i].value, enum_cls[i].value), enum_cls, i + 1)

RECURSIVE PtDasTraducoes(_, _, _)
PtDasTraducoes(d, en_to_pt, i) ==
    IF i > Len(en_to_pt) THEN d
    ELSE PtDasTraducoes(SetDefault(d, en_to_pt[i][2], en_to_pt[i][2]), en_to_pt, i + 1)

\* self._canonical_to_pt
canonical_to_pt(mp) == PtDasTraducoes(PtDosMembros(EmptyDict, mp.enum_cls, 1), mp.en_to_pt, 1)

RECURSIVE EnDasTraducoes(_, _, _)
EnDasTraducoes(d, en_to_pt, i) ==
    IF i > Len(en_to_pt) THEN d
    ELSE EnDasTraducoes(SetDefault(d, en_to_pt[i][2], en_to_pt[i][1]), en_to_pt, i + 1)

\* self._canonical_to_en
canonical_to_en(mp) == EnDasTraducoes(EmptyDict, mp.en_to_pt, 1)

\* a value handed to the mapper: None, a string, or a member of the mapper's enum
ValorNone == [tipo |-> "none", str |-> Plain(""), membro |-> 0]
ValorStr(t) == [tipo |-> "str", str |-> t, membro |-> 0]
ValorMembro(i) == [tipo |-> "enum", str |-> Plain(""), membro |-> i]

\* enum_cls(canonical): the member with that value, or ValueError
EnumPorValor(enum_cls, canonical) ==
    IF \E i \in 1..Len(enum_cls) : enum_cls[i].value = canonical
    THEN Some(CHOOSE i \in 1..Len(enum_cls) : enum_cls[i].value = canonical)
    ELSE Raised("ValueError")

\* EnumLocaleMapper._canonical_value
canonical_value(mp, value) ==
    IF value.tipo = "enum" THEN Some(mp.enum_cls[value.membro].value)
    ELSE Get(token_to_canonical(mp), normalize_token(value.str))

\* EnumLocaleMapper.to_enum: None, the member's position in the enum, or ValueError
to_enum(mp, value) ==
    IF value.tipo = "none" \/ (value.tipo = "str" /\ value.str = Plain("")) THEN None
    ELSE IF canonical_value(mp, value) = None THEN Raised("ValueError")
    ELSE EnumPorValor(mp.enum_cls, Val(canonical_value(mp, value)))

\* EnumLocaleMapper.to_portuguese
to_portuguese(mp, value) ==
    LET enum_value == to_enum(mp, value)
    IN  IF Len(enum_value) # 1 THEN enum_value
        ELSE LET canonical == mp.enum_cls[Val(enum_value)].value
             IN  IF canonical \in DOMAIN canonical_to_pt(mp)
                 THEN Some(canonical_to_pt(mp)[canonical]) ELSE Some(canonical)

\* EnumLocaleMapper.legacy_value
legacy_value(mp, value) ==
    LET enum_value == to_enum(mp, value)
    IN  IF Len(enum_value) # 1 THEN enum_value
        ELSE LET canonical == mp.enum_cls[Val(enum_value)].value
             IN  IF canonical \in DOMAIN canonical_to_en(mp)
                 THEN Some(canonical_to_en(mp)[canonical]) ELSE Some(canonical)

\* the terms tried on a mapper: every legacy term, Portuguese term, member value
\* and member name of the mapper and "xyz", each in lower or upper case, with or
\* without spaces around it and accents on it; the empty string, None, and
\* every member of the enum
Palavras(mp) ==
    {mp.en_to_pt[i][1].palavra : i \in 1..Len(mp.en_to_pt)}
        \cup {mp.en_to_pt[i][2].palavra : i \in 1..Len(mp.en_to_pt)}
        \cup {mp.enum_cls[i].value.palavra : i \in 1..Len(mp.enum_cls)}
        \cup {mp.enum_cls[i].name.palavra : i \in 1..Len(mp.enum_cls)}
        \cup {"xyz"}
Valores(mp) ==
    {ValorStr(Str(p, cx, esp, ac)) :
        p \in Palavras(mp), cx \in {"minuscula", "maiuscula"},
        esp \in BOOLEAN, ac \in BOOLEAN}
        \cup {ValorStr(Plain("")), ValorNone}
        \cup {ValorMembro(i) : i \in 1..Len(mp.enum_cls)}

\* one call of one mapper operation per run: the mappers keep no state between calls
InitLocale ==
    /\ rule = None
    /\ data = InicioGeral
    /\ hoje = HojeInicial
    /\ NoCalls

Chamada(op, mp, value, ret) ==
    Some([op |-> op, entrada |-> [mapper |-> mp.nome, value |-> value], resposta |-> ret])

ToEnum ==
    /\ pedido = None
    /\ \E mp \in Mappers : \E value \in Valores(mp) :
          pedido' = Chamada("to_enum", mp, value, to_enum(mp, value))
    /\ UNCHANGED <<rule, data, hoje, ultimaCalc, anteriorCalc, ultimaPode, banco, lote>>

ToPortuguese ==
    /\ pedido = None
    /\ \E mp \in Mappers : \E value \in Valores(mp) :
          pedido' = Chamada("to_portuguese", mp, value, to_portuguese(mp, value))
    /\ UNCHANGED <<rule, data, hoje, ultimaCalc, anteriorCalc, ultimaPode, banco, lote>>

LegacyValue ==
    /\ pedido = None
    /\ \E mp \in Mappers : \E value \in Valores(mp) :
          pedido' = Chamada("legacy_value", mp, value, legacy_value(mp, value))
    /\ UNCHANGED <<rule, data, hoje, ultimaCalc, anteriorCalc, ultimaPode, banco, lote>>

NextLocale == ToEnum \/ ToPortuguese \/ LegacyValue

SpecLocale == InitLocale /\ [][NextLocale]_vars

(***************************************************************************)
(* routers/budgets: create_budget and copy_budgets_from_previous_month of  *)
(* one user, served by two worker processes over one database. Each        *)
(* handler first queries the budgets table and later adds and commits;     *)
(* the table has a primary key and no unique constraint on                 *)
(* (user_id, category_id, ano, mes).                                       *)
(***************************************************************************)
\* the user's categories
Categorias == {"c1", "c2"}

\* the periods <<ano, mes>> requests carry; the budgets table is the number of rows
\* the user has per <<category_id, <<ano, mes>>>>
PeriodosOrc == {<<2023, 12>>, <<2024, 1>>, <<2024, 2>>}

ChavesOrc == Categorias \X PeriodosOrc

\* _budget_query(...).filter(category_id, ano, mes).first()
existing(orc, cat, per) == orc[<<cat, per>>] > 0

\* prev_year, prev_month of copy_budgets_from_previous_month
MesAnterior(per) == IF per[2] = 1 THEN <<per[1] - 1, 12>> ELSE <<per[1], per[2] - 1>>

\* _budget_query(...).filter(ano, mes).all(), as rows per category
prev_budgets(orc, per) ==
    [c \in Categorias |-> IF per \in PeriodosOrc THEN orc[<<c, per>>] ELSE 0]

RECURSIVE Soma(_, _)
Soma(f, S) ==
    IF S = {} THEN 0
    ELSE LET c == CHOOSE x \in S : TRUE IN f[c] + Soma(f, S \ {c})

\* _budget_query(...).filter(ano, mes).count()
existing_budgets(orc, per) == Soma(prev_budgets(orc, per), Categorias)

InitOrcamentos ==
    /\ rule = None
    /\ data = InicioGeral
    /\ hoje = HojeInicial
    /\ ultimaCalc = None /\ anteriorCalc = None /\ ultimaPode = None
    /\ banco = [orcamentos |-> [k \in ChavesOrc |-> 0]]
    /\ lote = [pc |-> [w \in Workers |-> "ocioso"], lido |-> [w \in Workers |-> None]]
    /\ pedido = None

Resposta(op, w, entrada, resposta) ==
    Some([op |-> op, por |-> w, entrada |-> entrada, resposta |-> resposta])

\* create_budget up to its existence query: 400 for an unknown category, 400 for
\* a budget found, otherwise on to the insert
CreateBudgetVerificar(w) ==
    /\ lote.pc[w] = "ocioso"
    /\ \E cat \in Categorias \cup {"cx"} : \E per \in PeriodosOrc :
         LET entrada == [category_id |-> cat, periodo |-> per] IN
         IF cat \notin Categorias
         THEN /\ pedido' = Resposta("create_budget", w, entrada, Raised("400 categoria"))
              /\ lote' = lote
         ELSE IF existing(banco.orcamentos, cat, per)
         THEN /\ pedido' = Resposta("create_budget", w, entrada, Raised("400 existente"))
              /\ lote' = lote
         ELSE /\ pedido' = pedido
              /\ lote' = [lote EXCEPT !.pc[w] = "a_criar", !.lido[w] = Some(entrada)]
    /\ UNCHANGED <<rule, data, hoje, ultimaCalc, anteriorCalc, ultimaPode, banco>>

\* create_budget: db.add(budget); db.commit()
CreateBudgetGravar(w) ==
    /\ lote.pc[w] = "a_criar"
    /\ LET entrada == Val(lote.lido[w]) IN
         /\ banco' = [banco EXCEPT
                        !.orcamentos[<<entrada.category_id, entrada.periodo>>] = @ + 1]
         /\ pedido' = Resposta("create_budget", w, entrada, "201")
    /\ lote' = [lote EXCEPT !.pc[w] = "ocioso", !.lido[w] = None]
    /\ UNCHANGED <<rule, data, hoje, ultimaCalc, anteriorCalc, ultimaPode>>

\* copy_budgets_from_previous_month up to its count query: 404 when the month
\* before has no budget, 400 when the target month has one, otherwise on to the copy
CopyBudgetsVerificar(w) ==
    /\ lote.pc[w] = "ocioso"
    /\ \E per \in PeriodosOrc :
         LET entrada == [periodo |-> per]
             prev    == prev_budgets(banco.orcamentos, MesAnterior(per)) IN
         IF Soma(prev, Categorias) = 0
         THEN /\ pedido' = Resposta("copy_budgets", w, entrada, Raised("404"))
              /\ lote' = lote
         ELSE IF existing_budgets(banco.orcamentos, per) > 0
         THEN /\ pedido' = Resposta("copy_budgets", w, entrada, Raised("400 existente"))
              /\ lote' = lote
         ELSE /\ pedido' = pedido
              /\ lote' = [lote EXCEPT !.pc[w] = "a_copiar",
                                      !.lido[w] = Some([periodo |-> per, prev_budgets |-> prev])]
    /\ UNCHANGED <<rule, data, hoje, ultimaCalc, anteriorCalc, ultimaPode, banco>>

\* copy_budgets_from_previous_month: one db.add per row read; db.commit()
CopyBudgetsGravar(w) ==
    /\ lote.pc[w] = "a_copiar"
    /\ LET lido == Val(lote.lido[w]) IN
         /\ banco' = [banco EXCEPT !.orcamentos =
                        [k \in ChavesOrc |->
                            IF k[2] = lido.periodo THEN @[k] + lido.prev_budgets[k[1]]
                            ELSE @[k]]]
         /\ pedido' = Resposta("copy_budgets", w, [periodo |-> lido.periodo],
                               Soma(lido.prev_budgets, Categorias))
    /\ lote' = [lote EXCEPT !.pc[w] = "ocioso", !.lido[w] = None]
    /\ UNCHANGED <<rule, data, hoje, ultimaCalc, anteriorCalc, ultimaPode>>

NextOrcamentos ==
    \/ \E w \in Workers : CreateBudgetVerificar(w)
    \/ \E w \in Workers : CreateBudgetGravar(w)
    \/ \E w \in Workers : CopyBudgetsVerificar(w)
    \/ \E w \in Workers : CopyBudgetsGravar(w)

SpecOrcamentos == InitOrcamentos /\ [][NextOrcamentos]_vars

(***************************************************************************)
(* routers/transactions: import_transactions_from_template. A file is a    *)
(* sequence of rows; of a row the model keeps the cells the handler        *)
(* branches on before it writes: tipo, categoria_nome, conta_nome. The     *)
(* other cells are taken as present and well formed (a bad one only adds   *)
(* an error line), status as left empty, names as already stripped and     *)
(* lower-cased.                                                            *)
(***************************************************************************)
ContaDestino == "carteira"

\* the stored rows of the user before the call
Armazenados ==
    {[transacoes |-> <<>>, contas |-> {ContaDestino}, categorias |-> cats] :
        cats \in {{}, {"mercado"}}}

LinhasDaPlanilha ==
    [tipo : {Plain("receita"), Plain("income"), Plain("transfer"), Plain("")},
     categoria_nome : {None, Some("mercado"), Some("viagem")},
     conta_nome : {None, Some("poupanca nova")}]

MaxLinhas == 2

Arquivos ==
    {<<>>} \cup UNION {[1..n -> LinhasDaPlanilha] : n \in 1..MaxLinhas}

\* what the row loop carries: the two lookups and what db.add has put in the session
Carregado(category_lookup, account_lookup_by_name, adicionadas) ==
    [category_lookup |-> category_lookup, account_lookup_by_name |-> account_lookup_by_name,
     adicionadas |-> adicionadas]

\* _ensure_category_for_import: the new category goes to the lookup, and to the
\* session unless dry_run
ensure_category_for_import(nome, est, dry_run) ==
    IF nome \in est.category_lookup THEN est
    ELSE [est EXCEPT !.category_lookup = @ \cup {nome},
                     !.adicionadas.categorias = IF ~dry_run THEN @ \cup {nome} ELSE @]

\* _ensure_account_for_import: the new account goes to the lookups, and to the
\* session unless dry_run
ensure_account_for_import(nome, est, dry_run) ==
    IF nome \in est.account_lookup_by_name THEN est
    ELSE [est EXCEPT !.account_lookup_by_name = @ \cup {nome},
                     !.adicionadas.contas = IF ~dry_run THEN @ \cup {nome} ELSE @]

\* _resolve_account_from_row: the account named, created when unknown, or the
\* destination account
resolve_account_from_row(row, est, dry_run) ==
    IF row.conta_nome # None
    THEN [conta |-> Val(row.conta_nome),
          est |-> ensure_account_for_import(Val(row.conta_nome), est, dry_run)]
    ELSE [conta |-> ContaDestino, est |-> est]

Linha(res, est) == [res |-> res, est |-> est]

\* _prepare_transaction_from_row: the payload of the row or ValueError, and what
\* the lookups and the session hold afterwards
prepare_transaction_from_row(row, est, dry_run) ==
    IF row.tipo = Plain("") THEN Linha(Raised("Campo 'tipo' e obrigatorio"), est)
    ELSE LET tipo == to_enum(transaction_type_mapper, ValorStr(row.tipo)) IN
    IF IsRaised(tipo) THEN Linha(Raised("Tipo invalido"), est)
    ELSE IF TransactionType[Val(tipo)].name = Upper("transfer")
    THEN Linha(Raised("Importacao de transferencias nao e suportada"), est)
    ELSE LET status == to_enum(transaction_status_mapper,
                               ValorStr(TransactionStatus[1].value)) IN
    IF IsRaised(status) THEN Linha(Raised("Status invalido"), est)
    ELSE LET est1 == IF row.categoria_nome = None THEN est
                     ELSE ensure_category_for_import(Val(row.categoria_nome), est, dry_run)
             conta == resolve_account_from_row(row, est1, dry_run)
         IN  Linha(Some([tipo |-> Val(tipo), categoria |-> row.categoria_nome,
                         conta |-> conta.conta]),
                   conta.est)

\* the row loop over the first n rows: rows_to_create, errors, total_rows, and
\* what the loop carries
RECURSIVE Percorrer(_, _, _, _)
Percorrer(rows, n, armazenado, dry_run) ==
    IF n = 0
    THEN [rows_to_create |-> <<>>, errors |-> <<>>, total_rows |-> 0,
          est |-> Carregado(armazenado.categorias, armazenado.contas,
                           [contas |-> {}, categorias |-> {}])]
    ELSE LET antes == Percorrer(rows, n - 1, armazenado, dry_run)
             linha == prepare_transaction_from_row(rows[n], antes.est, dry_run)
         IN  IF IsRaised(linha.res)
             THEN [antes EXCEPT !.errors = Append(@, <<n + 1, linha.res[2]>>),
                                !.total_rows = @ + 1, !.est = linha.est]
             ELSE [antes EXCEPT !.rows_to_create = Append(@, Val(linha.res)),
                                !.total_rows = @ + 1, !.est = linha.est]

\* the block after the loop: the transactions are added and the session committed
\* when there are rows to create and the call is not a dry run
created_transactions(lido, dry_run) ==
    IF lido.rows_to_create # <<>> /\ ~dry_run THEN lido.rows_to_create ELSE <<>>

Gravado(armazenado, lido, dry_run) ==
    IF lido.rows_to_create # <<>> /\ ~dry_run
    THEN [transacoes |-> armazenado.transacoes \o lido.rows_to_create,
          contas |-> armazenado.contas \cup lido.est.adicionadas.contas,
          categorias |-> armazenado.categorias \cup lido.est.adicionadas.categorias]
    ELSE armazenado

\* the response of the import
TransactionImportResultContaLinhas(lido, dry_run) ==
    [total_linhas |-> lido.total_rows,
     linhas_processadas |-> Len(lido.rows_to_create),
     linhas_com_erro |-> Len(lido.errors),
     transacoes_criadas |-> IF ~dry_run THEN Len(created_transactions(lido, dry_run))
                            ELSE lido.total_rows,
     erros |-> lido.errors]
TransactionImportResult(lido, dry_run) ==
    [total_linhas |-> lido.total_rows,
     linhas_processadas |-> Len(lido.rows_to_create),
     linhas_com_erro |-> Len(lido.errors),
     transacoes_criadas |-> IF ~dry_run THEN Len(created_transactions(lido, dry_run)) ELSE 0,
     erros |-> lido.errors]

\* the requests: the destination account, the dry_run flag, whether the upload is
\* a workbook with the sheet and the columns of the template, and its rows
PedidosImportacao ==
    [account_id : {ContaDestino, "conta de outro usuario"}, dry_run : BOOLEAN,
     modelo_valido : BOOLEAN, linhas : Arquivos]

InitImportacao ==
    /\ rule = None
    /\ data = InicioGeral
    /\ hoje = HojeInicial
    /\ ultimaCalc = None /\ anteriorCalc = None /\ ultimaPode = None
    /\ banco \in Armazenados
    /\ lote = LoteInicial
    /\ pedido = None

\* POST /transactions/import
import_transactions_from_template ==
    /\ pedido = None
    /\ \E req \in PedidosImportacao :
         LET entrada == [pedido |-> req, antes |-> banco]
             lido    == Percorrer(req.linhas, Len(req.linhas), banco, req.dry_run)
         IN  IF req.account_id \notin banco.contas
             THEN /\ banco' = banco
                  /\ pedido' = Some([op |-> "import", entrada |-> entrada,
                                     resposta |-> Raised("400 conta de destino")])
             ELSE IF ~req.modelo_valido
             THEN /\ banco' = banco
                  /\ pedido' = Some([op |-> "import", entrada |-> entrada,
                                     resposta |-> Raised("400 arquivo")])
             ELSE /\ banco' = Gravado(banco, lido, req.dry_run)
                  /\ pedido' = Some([op |-> "import", entrada |-> entrada,
                                     resposta |-> Some(TransactionImportResult(lido, req.dry_run))])
    /\ UNCHANGED <<rule, data, hoje, ultimaCalc, anteriorCalc, ultimaPode, lote>>

SpecImportacao == InitImportacao /\ [][import_transactions_from_template]_vars

(***************************************************************************)
(* The calendar as the properties read it: day numbers (date.toordinal),   *)
(* weekdays and month numbers, computed in closed form                     *)
(***************************************************************************)
DaysBeforeYear(y) == (y - 1) * 365 + ((y - 1) \div 4) - ((y - 1) \div 100) + ((y - 1) \div 400)

RECURSIVE DaysBeforeMonth(_, _)
DaysBeforeMonth(y, m) == IF m <= 1 THEN 0 ELSE DaysBeforeMonth(y, m - 1) + DaysInMonth(y, m - 1)

Ordinal(dt) == DaysBeforeYear(dt.y) + DaysBeforeMonth(dt.y, dt.m) + dt.d

\* 0 = Sunday .. 6 = Saturday, the numbering of dias_da_semana
DiaDaSemana(dt) == Ordinal(dt) % 7

MonthIndex(dt) == dt.y * 12 + (dt.m - 1)

\* "operationally active" and "expired as of a date", in the words of the data model
Operacional(r) == r.ativo = TRUE /\ r.status = "ACTIVE"
LimiteAtingido(r) == r.max_execucoes # None /\ r.total_execucoes >= Val(r.max_execucoes)
ExpiradaEm(r, ref) == (r.data_fim # None /\ DateGT(ref, Val(r.data_fim))) \/ LimiteAtingido(r)

CalcChamada == ultimaCalc # None
Ret == Val(ultimaCalc).ret
Data(y, m, d) == [y |-> y, m |-> m, d |-> d]

(***************************************************************************)
(* Properties                                                              *)
(***************************************************************************)

\* C1: pode_executar(rule, d) is true if and only if the rule is operationally
\* active, d >= data_inicio, data_fim is unset or d <= data_fim, and max_execucoes
\* is unset or total_execucoes < max_execucoes.
C1_PodeExecutarIff ==
    ultimaPode # None =>
        (Val(ultimaPode) <=>
            /\ Operacional(rule)
            /\ DateLE(rule.data_inicio, data)
            /\ (rule.data_fim = None \/ DateLE(data, Val(rule.data_fim)))
            /\ (rule.max_execucoes = None \/ rule.total_execucoes < Val(rule.max_execucoes)))

\* a rule with an end date and a cap answers true on its end date
C1_Witness ==
    /\ ultimaPode = Some(TRUE)
    /\ rule.data_fim # None /\ data = Val(rule.data_fim)
    /\ rule.max_execucoes # None

\* C2: calcular_proxima_execucao with an explicit reference date r returns None if
\* and only if the rule is not operationally active or is expired as of r (r after
\* data_fim, or the cap reached); every other rule gets a date.
C2_NoneIffInactiveOrExpiredAtRef ==
    CalcChamada => ((Ret = None) <=> (~Operacional(rule) \/ ExpiradaEm(rule, data)))

\* C3: for an active, non-expired MONTHLY rule the result lies intervalo months
\* after the reference month, on day min(dia_do_mes, month length) when
\* dia_do_mes is set and min(reference day, month length) when it is not.
C3_MonthlyDay ==
    (CalcChamada /\ rule.frequencia = "MONTHLY") =>
        /\ Ret # None
        /\ MonthIndex(Val(Ret)) = MonthIndex(data) + rule.intervalo
        /\ Val(Ret).d = Min(IF rule.dia_do_mes # None THEN Val(rule.dia_do_mes) ELSE data.d,
                            DaysInMonth(Val(Ret).y, Val(Ret).m))

\* interval 1, dia_do_mes 31, reference 2024-01-31 gives 2024-02-29
C3_Witness ==
    /\ CalcChamada
    /\ rule.frequencia = "MONTHLY" /\ rule.intervalo = 1 /\ rule.dia_do_mes = Some(31)
    /\ data = Data(2024, 1, 31)
    /\ Ret = Some(Data(2024, 2, 29))

\* C4: a QUARTERLY rule with interval N gets exactly the result of the same rule
\* with frequency MONTHLY and interval 3*N, dia_do_mes set or not.
C4_QuarterlyAsMonthly ==
    (CalcChamada /\ rule.frequencia = "QUARTERLY") =>
        Ret = calcular_proxima_execucao(
                  [rule EXCEPT !.frequencia = "MONTHLY", !.intervalo = 3 * rule.intervalo],
                  Some(data), Val(ultimaCalc).hoje)

\* C5: two calls of calcular_proxima_execucao on the same rule with the same
\* explicit reference date return the same result, whatever the clock shows at
\* each call.
C5_SameInputsSameResult ==
    (ultimaCalc # None /\ anteriorCalc # None) =>
        Val(ultimaCalc).ret = Val(anteriorCalc).ret

\* C6 as stated: for a MONTHLY rule with dia_do_mes = 31 and a reference date in
\* February, the result's day is the last day of its month, which is 28 or 29,
\* and the result does not lie in March.
C6_FromFebruaryOriginal ==
    (CalcChamada /\ rule.frequencia = "MONTHLY" /\ rule.dia_do_mes = Some(31) /\ data.m = 2) =>
        /\ Ret # None
        /\ Val(Ret).d = DaysInMonth(Val(Ret).y, Val(Ret).m)
        /\ Val(Ret).d \in {28, 29}
        /\ Val(Ret).m # 3

\* C6 amended: for a MONTHLY rule with dia_do_mes = 31 the result's day is the last
\* day of the resulting month, the month intervalo months after the reference
\* month; when that month is February the day is 28 or 29 and the result lies in
\* February, not in March.
C6_LastDayOfTargetMonth ==
    (CalcChamada /\ rule.frequencia = "MONTHLY" /\ rule.dia_do_mes = Some(31)) =>
        /\ Ret # None
        /\ MonthIndex(Val(Ret)) = MonthIndex(data) + rule.intervalo
        /\ Val(Ret).d = DaysInMonth(Val(Ret).y, Val(Ret).m)
        /\ ((MonthIndex(data) + rule.intervalo) % 12 = 1 =>
                Val(Ret).m = 2 /\ Val(Ret).d \in {28, 29})

\* dia_do_mes 31 reaching a February of 28 days
C6_Witness ==
    /\ CalcChamada
    /\ rule.frequencia = "MONTHLY" /\ rule.dia_do_mes = Some(31)
    /\ Ret # None /\ Val(Ret).m = 2 /\ Val(Ret).d = 28

\* C7: for MONTHLY and QUARTERLY rules the result is a date of the target month
\* (reference month plus intervalo, resp. 3 * intervalo, months), never of the
\* month after it, for every reference day and every dia_do_mes.
C7_ClampRoundsDown ==
    (CalcChamada /\ rule.frequencia \in {"MONTHLY", "QUARTERLY"}) =>
        /\ Ret # None
        /\ IsDate(Val(Ret))
        /\ MonthIndex(Val(Ret)) = MonthIndex(data) +
               (IF rule.frequencia = "MONTHLY" THEN rule.intervalo ELSE 3 * rule.intervalo)

\* a QUARTERLY step from a 31st into a shorter month
C7_Witness ==
    /\ CalcChamada
    /\ rule.frequencia = "QUARTERLY" /\ data.d = 31
    /\ Ret # None /\ Val(Ret).d < 31

\* C8: for an active, non-expired DAILY rule with interval N the result is the
\* reference date plus N days.
C8_DailyPlusN ==
    (CalcChamada /\ rule.frequencia = "DAILY") =>
        /\ Ret # None
        /\ IsDate(Val(Ret))
        /\ Ordinal(Val(Ret)) = Ordinal(data) + rule.intervalo

\* a DAILY step over the end of February of a leap year
C8_Witness ==
    /\ CalcChamada
    /\ rule.frequencia = "DAILY" /\ rule.intervalo = MaxIntervalo
    /\ data = Data(2024, 2, 29)
    /\ Ret # None /\ Val(Ret).m = 3

C10_WeeklyPlus7N ==
    (CalcChamada /\ rule.frequencia = "WEEKLY") =>
        /\ Ret # None
        /\ IsDate(Val(Ret))
        /\ Ordinal(Val(Ret)) = Ordinal(data) + 7 * rule.intervalo
        /\ DiaDaSemana(Val(Ret)) = DiaDaSemana(data)

\* a WEEKLY rule for Monday/Wednesday/Friday stepped from a Tuesday
C10_Witness ==
    /\ CalcChamada
    /\ rule.frequencia = "WEEKLY" /\ rule.dias_da_semana = Some(<<1, 3, 5>>)
    /\ DiaDaSemana(data) = 2
    /\ Ret # None /\ DiaDaSemana(Val(Ret)) = 2

\* C11: calcular_proxima_execucao and pode_executar leave every field of the rule
\* as it was, whatever they return: every step of the eligibility runs (a call of
\* either operation, or the clock advancing) keeps the rule's row unchanged.
C11_CallsLeaveRuleUnchanged == [][rule' = rule]_vars

\* both operations have run on a rule for which they answer None and false
C11_Witness ==
    /\ CalcChamada /\ Ret = None
    /\ ultimaPode = Some(FALSE)
    /\ rule.proxima_execucao = None /\ rule.ultima_execucao = None

\* C12: once total_execucoes has reached max_execucoes, pode_executar answers
\* false for every candidate date, also inside [data_inicio, data_fim] on an
\* active rule, and the cap stays reached as total_execucoes grows further.
C12_CapReachedStaysFalse ==
    /\ []((ultimaPode # None /\ LimiteAtingido(rule)) => ultimaPode = Some(FALSE))
    /\ [][LimiteAtingido(rule) => LimiteAtingido(rule')]_vars

\* an active rule past its cap, asked about a date inside its period
C12_Witness ==
    /\ ultimaPode = Some(FALSE)
    /\ Operacional(rule)
    /\ DateLE(rule.data_inicio, data)
    /\ (rule.data_fim = None \/ DateLE(data, Val(rule.data_fim)))
    /\ rule.max_execucoes # None /\ rule.total_execucoes > Val(rule.max_execucoes)

\* C16: once a rule is expired (the clock past data_fim, or the cap reached),
\* calcular_proxima_execucao returns None for every reference date, and the rule
\* stays expired as the clock advances and total_execucoes grows, data_fim and
\* max_execucoes not being edited.
C16_ExpiredIsInert ==
    /\ []((CalcChamada /\ ExpiradaEm(rule, Val(ultimaCalc).hoje)) => Ret = None)
    /\ [][(ExpiradaEm(rule, hoje) /\ rule'.data_fim = rule.data_fim
              /\ rule'.max_execucoes = rule.max_execucoes)
          => ExpiradaEm(rule', hoje')]_vars

\* an active rule, the clock past its data_fim, asked for a reference date
\* before data_fim
C16_Witness ==
    /\ CalcChamada /\ Ret = None
    /\ Operacional(rule)
    /\ rule.data_fim # None /\ DateGT(Val(ultimaCalc).hoje, Val(rule.data_fim))
    /\ DateLT(data, Val(rule.data_fim))
    /\ ~LimiteAtingido(rule)

C14_TotalWithinCap ==
    rule.max_execucoes # None => rule.total_execucoes <= Val(rule.max_execucoes)

\* C15: a status change is one of ACTIVE -> PAUSED, CANCELLED, COMPLETED or
\* PAUSED -> ACTIVE, CANCELLED; COMPLETED and CANCELLED never change again.
TransicoesDoCicloDeVida ==
    {<<"ACTIVE", "PAUSED">>, <<"ACTIVE", "CANCELLED">>, <<"ACTIVE", "COMPLETED">>,
     <<"PAUSED", "ACTIVE">>, <<"PAUSED", "CANCELLED">>}
C15_StatusFollowsLifecycle ==
    [][rule'.status # rule.status => <<rule.status, rule'.status>> \in TransicoesDoCicloDeVida]_vars

\* C17: the row of a rule stays in storage whatever delete operation is
\* applied to its account, its category or its user.
C17_RuleNeverRemoved == banco.regra

\* the preconditions of the engine, in the words of the data model
BemFormada(r) ==
    /\ r.intervalo >= 1
    /\ (r.dia_do_mes = None \/ Val(r.dia_do_mes) \in 1..31)
    /\ r.data_inicio # None
    /\ r.frequencia \in {"DAILY", "WEEKLY", "MONTHLY", "QUARTERLY", "YEARLY"}
MalFormada(r) ==
    \/ r.intervalo < 1
    \/ (r.dia_do_mes # None /\ Val(r.dia_do_mes) \notin 1..31)

\* one period of the rule after ref is a date of the calendar, which ends on
\* 9999-12-31
UltimoDia == Data(9999, 12, 31)
ProximaCabe(r, ref) ==
    CASE r.frequencia = "DAILY"     -> Ordinal(ref) + r.intervalo <= Ordinal(UltimoDia)
      [] r.frequencia = "WEEKLY"    -> Ordinal(ref) + 7 * r.intervalo <= Ordinal(UltimoDia)
      [] r.frequencia = "MONTHLY"   -> MonthIndex(ref) + r.intervalo <= MonthIndex(UltimoDia)
      [] r.frequencia = "QUARTERLY" -> MonthIndex(ref) + 3 * r.intervalo <= MonthIndex(UltimoDia)
      [] r.frequencia = "YEARLY"    -> ref.y + r.intervalo <= UltimoDia.y

\* C18: for a rule with intervalo < 1 or dia_do_mes outside 1..31,
\* calcular_proxima_execucao returns None or raises; it never returns a date.
C18_MalformedNeverYieldsDate ==
    (CalcChamada /\ MalFormada(rule)) => (Ret = None \/ Len(Ret) = 2)

MesmosCamposDeElegibilidade(r) ==
    {[r EXCEPT !.frequencia = freq, !.intervalo = n, !.dia_do_mes = dom,
               !.dias_da_semana = dow, !.proxima_execucao = px, !.ultima_execucao = ux] :
        freq \in {"DAILY", "WEEKLY", "MONTHLY", "QUARTERLY", "YEARLY"},
        n \in {1, 12}, dom \in {None, Some(15)}, dow \in {None, Some(<<1, 3, 5>>)},
        px \in {None, Some(Data(2024, 2, 1))}, ux \in {None, Some(Data(2024, 1, 30))}}

\* C20: the verdict of pode_executar(rule, d) is the verdict of every rule that
\* agrees with it on ativo, status, data_inicio, data_fim, total_execucoes and
\* max_execucoes, whatever the other fields and the clock are.
C20_VerdictDependsOnEligibilityFieldsOnly ==
    ultimaPode # None =>
        \A r2 \in MesmosCamposDeElegibilidade(rule) : pode_executar(r2, data) = Val(ultimaPode)

\* the day after data_fim: calcular_proxima_execucao has returned None for the
\* rule while pode_executar accepts a date inside the period
C20_Witness ==
    /\ ultimaPode = Some(TRUE)
    /\ CalcChamada /\ Ret = None
    /\ rule.data_fim # None /\ DateGT(Val(ultimaCalc).hoje, Val(rule.data_fim))
    /\ rule.frequencia = "QUARTERLY"

\* C21: a rule just created through RecurringRuleCreate has status ACTIVE and
\* total_execucoes 0, whatever the body of the request carried, and is
\* operationally active exactly when its ativo flag is true.
C21_CreatedActiveAndUncounted ==
    (pedido # None /\ Val(pedido).resposta = "criada") =>
        /\ rule.status = "ACTIVE"
        /\ rule.total_execucoes = 0
        /\ (is_active(rule) <=> rule.ativo = TRUE)

\* a body that carried status and total_execucoes was accepted, and the rule
\* created is disabled
C21_Witness ==
    /\ pedido # None /\ Val(pedido).resposta = "criada"
    /\ Val(pedido).entrada.status = Some("CANCELLED")
    /\ Val(pedido).entrada.total_execucoes = Some(5)
    /\ Val(pedido).entrada.ativo = FALSE
    /\ rule.ativo = FALSE /\ rule.status = "ACTIVE"

\* C22: intervalo >= 1 in every state reached by creation and updates, and no
\* step changes intervalo.
C22_IntervalAtLeastOne ==
    /\ [](rule.intervalo >= 1)
    /\ [][rule'.intervalo = rule.intervalo]_vars

\* a rule that updates have paused and moved to day 31
C22_Witness ==
    /\ rule.status = "PAUSED" /\ rule.dia_do_mes = Some(31)
    /\ rule.intervalo >= 1

\* C23: in every state reached by creation and updates, dias_da_semana is unset
\* or a non-empty list of integers in 0..6.
C23_DaysOfWeekWellFormed ==
    rule.dias_da_semana # None =>
        /\ Len(Val(rule.dias_da_semana)) > 0
        /\ \A i \in 1..Len(Val(rule.dias_da_semana)) : Val(rule.dias_da_semana)[i] \in 0..6

\* C27: in every state reached by creation and updates, data_fim, when set, is
\* strictly after data_inicio.
C27_EndAfterStart ==
    rule.data_fim # None => DateLT(rule.data_inicio, Val(rule.data_fim))

\* C25: for an active, unexpired rule with intervalo >= 1 the date returned is
\* strictly after the reference date, so the reference dates of an iteration
\* strictly increase.
C25_StrictlyLater ==
    /\ []((CalcChamada /\ Operacional(rule) /\ rule.intervalo >= 1 /\ Len(Ret) = 1)
            => Ordinal(data) < Ordinal(Val(Ret)))
    /\ [][data' # data => Ordinal(data) < Ordinal(data')]_vars

\* a quarterly rule, iterated from January 31st, asked again from April 30th
C25_Witness ==
    /\ CalcChamada
    /\ rule.frequencia = "QUARTERLY" /\ rule.intervalo = 1
    /\ data = Data(2024, 4, 30)
    /\ Ret = Some(Data(2024, 7, 30))

\* C26: iterating a MONTHLY rule with dia_do_mes = D gives at every step a date
\* whose day is min(D, length of its month).
C26_IteratedMonthlyKeepsDay ==
    (CalcChamada /\ rule.frequencia = "MONTHLY" /\ rule.dia_do_mes # None /\ Len(Ret) = 1) =>
        LET ultimo == Ordinal(Data(Val(Ret).y + (Val(Ret).m \div 12), (Val(Ret).m % 12) + 1, 1))
                        - Ordinal(Data(Val(Ret).y, Val(Ret).m, 1))
        IN  Val(Ret).d = (IF Val(rule.dia_do_mes) <= ultimo THEN Val(rule.dia_do_mes) ELSE ultimo)

\* day 31 from 2024-01-31: after 02-29 and 03-31 the iteration stands on 03-31
\* and the next date is 04-30
C26_Witness ==
    /\ CalcChamada
    /\ rule.frequencia = "MONTHLY" /\ rule.intervalo = 1 /\ rule.dia_do_mes = Some(31)
    /\ data = Data(2024, 3, 31)
    /\ Ret = Some(Data(2024, 4, 30))

\* the mapper a recorded call was made on
MapperChamado == CHOOSE mp \in Mappers : mp.nome = Val(pedido).entrada.mapper

\* position of the member a word is registered for in the English-to-Portuguese
\* table of the mapper, as its legacy term (the member's name in lower case) or
\* as the Portuguese term of that entry; 0 when the word names no member
MembroNomeado(mp, palavra) ==
    IF \E i \in 1..Len(mp.enum_cls) : \E k \in 1..Len(mp.en_to_pt) :
          /\ mp.en_to_pt[k][1].palavra = mp.enum_cls[i].name.palavra
          /\ palavra \in {mp.en_to_pt[k][1].palavra, mp.en_to_pt[k][2].palavra}
    THEN CHOOSE i \in 1..Len(mp.enum_cls) : \E k \in 1..Len(mp.en_to_pt) :
          /\ mp.en_to_pt[k][1].palavra = mp.enum_cls[i].name.palavra
          /\ palavra \in {mp.en_to_pt[k][1].palavra, mp.en_to_pt[k][2].palavra}
    ELSE 0

\* C24: to_enum returns the member for its legacy English term and for its
\* Portuguese term, in any case, with or without spaces and accents; None and
\* the empty string give None.
C24_ToEnumAcceptsBothLanguages ==
    (pedido # None /\ Val(pedido).op = "to_enum") =>
        LET value == Val(pedido).entrada.value
            ret == Val(pedido).resposta
        IN  /\ (value.tipo = "none" \/ (value.tipo = "str" /\ value.str = Plain("")))
                  => ret = None
            /\ (/\ value.tipo = "str" /\ value.str # Plain("")
                /\ MembroNomeado(MapperChamado, value.str.palavra) # 0)
                  => ret = Some(MembroNomeado(MapperChamado, value.str.palavra))

\* C28: for every member m, to_enum(to_portuguese(m)) = m, to_enum(legacy_value(m)) = m,
\* and to_portuguese(m) is the Portuguese term of m in the English-to-Portuguese table.
C28_TranslationsRoundTrip ==
    (pedido # None /\ Val(pedido).entrada.value.tipo = "enum") =>
        LET mp == MapperChamado
            m == Val(pedido).entrada.value.membro
            ret == Val(pedido).resposta
        IN  /\ Val(pedido).op \in {"to_portuguese", "legacy_value"} =>
                  (Len(ret) = 1 /\ to_enum(mp, ValorStr(Val(ret))) = Some(m))
            /\ Val(pedido).op = "to_portuguese" =>
                  \E k \in 1..Len(mp.en_to_pt) :
                      /\ mp.en_to_pt[k][1].palavra = mp.enum_cls[m].name.palavra
                      /\ ret = Some(mp.en_to_pt[k][2])


\* C29: under any interleaving of create_budget and copy_budgets_from_previous_month
\* requests of one user, the budgets table holds at most one row per category and
\* period.
C29_AtMostOneBudgetPerCategoryAndPeriod ==
    \A k \in ChavesOrc : banco.orcamentos[k] <= 1


ImportacaoFeita == pedido # None /\ Val(pedido).op = "import"

\* C30: a call of import_transactions_from_template with dry_run = true leaves the
\* stored transactions, accounts and categories as they were before it, and when
\* it answers with a result the result reports transacoes_criadas = 0, whatever
\* the rows of the file name.
C30_DryRunPersistsNothing ==
    (ImportacaoFeita /\ Val(pedido).entrada.pedido.dry_run) =>
        /\ banco = Val(pedido).entrada.antes
        /\ Len(Val(pedido).resposta) = 1 =>
              Val(Val(pedido).resposta).transacoes_criadas = 0

\* a dry run over a template file with a row that names an account and a category
\* the user does not have has been answered with a result
C30_Witness ==
    /\ ImportacaoFeita
    /\ Val(pedido).entrada.pedido.dry_run
    /\ Len(Val(pedido).resposta) = 1
    /\ \E i \in 1..Len(Val(pedido).entrada.pedido.linhas) :
         LET row == Val(pedido).entrada.pedido.linhas[i]
         IN  /\ row.tipo = Plain("receita")
             /\ row.conta_nome # None /\ Val(row.conta_nome) \notin Val(pedido).entrada.antes.contas
             /\ row.categoria_nome # None
             /\ Val(row.categoria_nome) \notin Val(pedido).entrada.antes.categorias

====
